---- MODULE Spec2Model ----
(***************************************************************************)
(* url-shortener: the SQLite storage (package sqlite: New, SaveURL,        *)
(* GetURL, DeleteURL) and the startup path of cmd/url-shortener/main.go.   *)
(*                                                                         *)
(* The database file outlives the process: schema and rows are the durable *)
(* state.  Every SQL statement is one atomic step of the engine; the Go    *)
(* code around a statement (Prepare, error translation, return) is local   *)
(* to the calling goroutine.  Request handlers run concurrently, one       *)
(* goroutine per request, and share the single *Storage created by main.   *)
(***************************************************************************)
EXTENDS Integers, Sequences, FiniteSets, TLC

(* ------------------------------ bounds -------------------------------- *)

\* number of concurrent request goroutines
NumCallers == 2

\* rowids above MaxId are not assigned in the model
MaxId == 2

Callers == 1..NumCallers

\* request inputs; Go strings are never NULL, the empty string is a value
Aliases == {"", "ex1"}
Targets == {"", "https://example.com", "https://other.com"}

(* ------------------------------ errors -------------------------------- *)
\* An error value is its Unwrap chain, outermost message first; nil is <<>>.

Nil == <<>>

\* sentinels of package url-shortener/internal/storage
ErrURLExists == "url exists"
ErrURLNotFound == "url not found"

\* errors the engine and database/sql produce
SqliteConstraintUnique == "UNIQUE constraint failed: url.alias"
SqliteFault == "disk I/O error"
SqlErrNoRows == "sql: no rows in result set"

\* fmt.Errorf("<msg>: %w", err)
Wrap(msg, err) == <<msg>> \o err

\* errors.Is(err, target)
ErrorsIs(err, target) == \E i \in DOMAIN err : err[i] = target

\* the engine itself failed (I/O, lock, connection), as opposed to a
\* constraint violation or an empty result
IsEngineFailure(err) == ErrorsIs(err, SqliteFault)

(* ------------------------------ engine -------------------------------- *)
\* A table is a set of rows [id, alias, url].

Max(S) == CHOOSE x \in S : \A y \in S : y <= x

Matching(tbl, alias) == {r \in tbl : r.alias = alias}

\* id INTEGER PRIMARY KEY (no AUTOINCREMENT): the rowid of a new row is one
\* more than the largest rowid now in the table, 1 in an empty table
CountRowid(tbl) == Cardinality(tbl) + 1
NewRowid(tbl) == IF tbl = {} THEN 1 ELSE Max({r.id : r \in tbl}) + 1

\* alias TEXT NOT NULL UNIQUE: a second row with an alias already present
\* violates the constraint
NoUniqueConstraint(tbl, alias) == FALSE
ViolatesUnique(tbl, alias) == Matching(tbl, alias) # {}

\* INSERT INTO url(url, alias) VALUES(?, ?) as one atomic statement
ExecInsertSwapped(tbl, url, alias, fault) ==
  IF fault THEN [tbl |-> tbl, id |-> 0, err |-> <<SqliteFault>>]
  ELSE IF ViolatesUnique(tbl, url)
       THEN [tbl |-> tbl, id |-> 0, err |-> <<SqliteConstraintUnique>>]
       ELSE [tbl |-> tbl \cup {[id |-> NewRowid(tbl), alias |-> url, url |-> alias]},
             id |-> NewRowid(tbl), err |-> Nil]
ExecInsert(tbl, url, alias, fault) ==
  IF fault THEN [tbl |-> tbl, id |-> 0, err |-> <<SqliteFault>>]
  ELSE IF ViolatesUnique(tbl, alias)
       THEN [tbl |-> tbl, id |-> 0, err |-> <<SqliteConstraintUnique>>]
       ELSE [tbl |-> tbl \cup {[id |-> NewRowid(tbl), alias |-> alias, url |-> url]},
             id |-> NewRowid(tbl), err |-> Nil]

\* DELETE FROM url WHERE alias = ? as one atomic statement
ExecDeleteKeeps(tbl, alias, fault) ==
  IF fault THEN [tbl |-> tbl, n |-> 0, err |-> <<SqliteFault>>]
  ELSE [tbl |-> tbl, n |-> Cardinality(Matching(tbl, alias)), err |-> Nil]
ExecDeleteAll(tbl, alias, fault) ==
  IF fault THEN [tbl |-> tbl, n |-> 0, err |-> <<SqliteFault>>]
  ELSE [tbl |-> {}, n |-> Cardinality(tbl), err |-> Nil]
ExecDelete(tbl, alias, fault) ==
  IF fault THEN [tbl |-> tbl, n |-> 0, err |-> <<SqliteFault>>]
  ELSE [tbl |-> tbl \ Matching(tbl, alias),
        n |-> Cardinality(Matching(tbl, alias)), err |-> Nil]

\* SELECT url FROM url WHERE alias = ? read by QueryRow(..).Scan: the
\* possible outcomes (the first row the engine yields, or sql.ErrNoRows)
QueryRowScan(tbl, alias, fault) ==
  IF fault THEN {[url |-> "", err |-> <<SqliteFault>>]}
  ELSE IF Matching(tbl, alias) = {}
       THEN {[url |-> "", err |-> <<SqlErrNoRows>>]}
       ELSE {[url |-> r.url, err |-> Nil] : r \in Matching(tbl, alias)}

(* --------------------------- storage methods -------------------------- *)

\* SaveURL after stmt.Exec: the translation of the engine's answer
NoTranslation(x) == [id |-> 0, err |-> Wrap("storage.sqlite.SaveURL", x.err)]
SaveURLReturn(x) ==
  IF x.err # Nil
  THEN IF x.err[1] = SqliteConstraintUnique
       THEN [id |-> 0, err |-> Wrap("storage.sqlite.SaveURL", <<ErrURLExists>>)]
       ELSE [id |-> 0, err |-> Wrap("storage.sqlite.SaveURL", x.err)]
  ELSE [id |-> x.id, err |-> Nil]

\* GetURL after QueryRow(..).Scan
AlwaysNotFound(x) ==
  IF x.err # Nil THEN [url |-> "", err |-> <<ErrURLNotFound>>]
  ELSE [url |-> x.url, err |-> Nil]
GetURLReturn(x) ==
  IF x.err # Nil
  THEN IF ErrorsIs(x.err, SqlErrNoRows)
       THEN [url |-> "", err |-> <<ErrURLNotFound>>]
       ELSE [url |-> "", err |-> Wrap("storage.sqlite.GetURL: execute statement", x.err)]
  ELSE [url |-> x.url, err |-> Nil]

\* DeleteURL after db.Exec
DeleteURLReturn(x) ==
  IF x.err # Nil
  THEN [n |-> 0, err |-> Wrap("storage.sqlite.DeleteURL: execute statement", x.err)]
  ELSE [n |-> x.n, err |-> Nil]

(* ------------------------------- state -------------------------------- *)

VARIABLES
  mainPc,    \* position of main()
  storage,   \* main's storage variable: "nil" or "ready"
  schema,    \* objects of the database file
  rows,      \* the rows of table url
  call,      \* per caller: position, arguments and return values
  saved,     \* history: alias -> target of the last successful SaveURL
             \*          not followed by a successful DeleteURL, or NoTarget
  launch     \* history: the alias concurrent calls are launched on and the
             \*          table at that moment

vars == <<mainPc, storage, schema, rows, call, saved, launch>>

NoTarget == "<none>"

NoLaunch == [alias |-> "", tbl |-> {}]

IdleCall == [pc |-> "idle", op |-> "", url |-> "", alias |-> "",
             id |-> 0, resURL |-> "", n |-> 0, err |-> Nil]

Init ==
  /\ mainPc = "new_prepare"
  /\ storage = "nil"
  /\ schema = {}
  /\ rows = {}
  /\ call = [p \in Callers |-> IdleCall]
  /\ saved = [a \in Aliases |-> NoTarget]
  /\ launch = NoLaunch

(* ------------------------------- main() ------------------------------- *)

\* the statement New prepares and executes: db.Prepare compiles the first
\* statement of the text only, so stmt.Exec runs CREATE TABLE IF NOT EXISTS
\* and nothing after it; an existing table and its rows are left as they are
DropAndCreate(sch, tbl) == [schema |-> sch \cup {"url"}, tbl |-> {}]
CreateTableIfNotExists(sch, tbl) ==
  IF "url" \in sch THEN [schema |-> sch, tbl |-> tbl]
  ELSE [schema |-> sch \cup {"url"}, tbl |-> {}]

\* main after sqlite.New: if err != nil, log and os.Exit(1); otherwise go on
\* to the router ("exited" is os.Exit(1), "stopped" is the return from main)
LogAndGoOn(err) == "routes"
MainAfterNew(err) == IF err # Nil THEN "exited" ELSE "routes"

\* New: sql.Open and db.Prepare; on an error New returns it and main exits
NewPrepare ==
  /\ mainPc = "new_prepare"
  /\ \E fault \in BOOLEAN :
       mainPc' = IF fault THEN MainAfterNew(<<SqliteFault>>) ELSE "new_exec"
  /\ UNCHANGED <<storage, schema, rows, call, saved, launch>>

\* New: stmt.Exec and return &Storage{db}; main keeps it in storage
NewExec ==
  /\ mainPc = "new_exec"
  /\ \E fault \in BOOLEAN :
       IF fault
       THEN /\ mainPc' = MainAfterNew(<<SqliteFault>>)
            /\ UNCHANGED <<storage, schema, rows>>
       ELSE LET x == CreateTableIfNotExists(schema, rows) IN
            /\ mainPc' = MainAfterNew(Nil)
            /\ storage' = "ready"
            /\ schema' = x.schema
            /\ rows' = x.tbl
  /\ UNCHANGED <<call, saved, launch>>

\* chi.NewRouter, the middleware and the three routes
RegisterRoutes ==
  /\ mainPc = "routes"
  /\ mainPc' = "listen"
  /\ UNCHANGED <<storage, schema, rows, call, saved, launch>>

\* srv.ListenAndServe: serves until the process ends, or returns an error
ListenAndServe ==
  /\ mainPc = "listen"
  /\ \E fault \in BOOLEAN :
       mainPc' = IF fault THEN "stopped" ELSE "serving"
  /\ UNCHANGED <<storage, schema, rows, call, saved, launch>>

\* the process ends (exit, return from main, or a kill while serving) and is
\* started again on the same storage path: requests in flight are gone, the
\* database file stays
Restart ==
  /\ mainPc \in {"exited", "stopped", "serving"}
  /\ mainPc' = "new_prepare"
  /\ storage' = "nil"
  /\ call' = [p \in Callers |-> IdleCall]
  /\ UNCHANGED <<schema, rows, saved, launch>>

(* ------------------------------ requests ------------------------------ *)

Serving == mainPc = "serving" /\ storage = "ready"

\* the call has returned: its frame is gone, its return values remain
Done(c, r) == [pc |-> "done", op |-> c.op, url |-> "", alias |-> "",
               id |-> r.id, resURL |-> r.resURL, n |-> r.n, err |-> r.err]

NoResult == [id |-> 0, resURL |-> "", n |-> 0, err |-> Nil]

\* SaveURL: s.db.Prepare
SavePrepare(p, u, a) ==
  /\ Serving
  /\ call[p].pc = "idle"
  /\ \E fault \in BOOLEAN :
       LET c == [IdleCall EXCEPT !.op = "SaveURL", !.url = u, !.alias = a] IN
       call' = [call EXCEPT ![p] =
         IF fault
         THEN Done(c, [NoResult EXCEPT
                 !.err = Wrap("storage.sqlite.SaveURL", <<SqliteFault>>)])
         ELSE [c EXCEPT !.pc = "save_exec"]]
  /\ UNCHANGED <<mainPc, storage, schema, rows, saved, launch>>

\* SaveURL: stmt.Exec, the error translation, res.LastInsertId and return
SaveExec(p) ==
  /\ Serving
  /\ call[p].pc = "save_exec"
  /\ \E fault \in BOOLEAN :
       LET c == call[p]
           x == ExecInsert(rows, c.url, c.alias, fault)
           r == SaveURLReturn(x)
       IN /\ x.id <= MaxId
          /\ rows' = x.tbl
          /\ call' = [call EXCEPT ![p] =
                        Done(c, [NoResult EXCEPT !.id = r.id, !.err = r.err])]
          /\ saved' = IF r.err = Nil THEN [saved EXCEPT ![c.alias] = c.url]
                      ELSE saved
  /\ UNCHANGED <<mainPc, storage, schema, launch>>

\* GetURL: s.db.Prepare
GetPrepare(p, a) ==
  /\ Serving
  /\ call[p].pc = "idle"
  /\ \E fault \in BOOLEAN :
       LET c == [IdleCall EXCEPT !.op = "GetURL", !.alias = a] IN
       call' = [call EXCEPT ![p] =
         IF fault
         THEN Done(c, [NoResult EXCEPT
                 !.err = Wrap("storage.sqlite.GetURL: prepare statement",
                              <<SqliteFault>>)])
         ELSE [c EXCEPT !.pc = "get_exec"]]
  /\ UNCHANGED <<mainPc, storage, schema, rows, saved, launch>>

\* GetURL: stmt.QueryRow(alias).Scan, the error translation and return
GetExec(p) ==
  /\ Serving
  /\ call[p].pc = "get_exec"
  /\ \E fault \in BOOLEAN :
       \E x \in QueryRowScan(rows, call[p].alias, fault) :
         LET r == GetURLReturn(x) IN
         call' = [call EXCEPT ![p] =
           Done(call[p], [NoResult EXCEPT !.resURL = r.url, !.err = r.err])]
  /\ UNCHANGED <<mainPc, storage, schema, rows, saved, launch>>

\* DeleteURL is called
DeleteCall(p, a) ==
  /\ Serving
  /\ call[p].pc = "idle"
  /\ call' = [call EXCEPT ![p] =
       [IdleCall EXCEPT !.pc = "delete_exec", !.op = "DeleteURL", !.alias = a]]
  /\ UNCHANGED <<mainPc, storage, schema, rows, saved, launch>>

\* DeleteURL: s.db.Exec, result.RowsAffected and return
DeleteExec(p) ==
  /\ Serving
  /\ call[p].pc = "delete_exec"
  /\ \E fault \in BOOLEAN :
       LET c == call[p]
           x == ExecDelete(rows, c.alias, fault)
           r == DeleteURLReturn(x)
       IN /\ rows' = x.tbl
          /\ call' = [call EXCEPT ![p] =
                        Done(c, [NoResult EXCEPT !.n = r.n, !.err = r.err])]
          /\ saved' = IF r.err = Nil THEN [saved EXCEPT ![c.alias] = NoTarget]
                      ELSE saved
  /\ UNCHANGED <<mainPc, storage, schema, launch>>

\* the handler has its values; the goroutine takes the next request
Return(p) ==
  /\ call[p].pc = "done"
  /\ call' = [call EXCEPT ![p] = IdleCall]
  /\ UNCHANGED <<mainPc, storage, schema, rows, saved, launch>>

Next ==
  \/ NewPrepare
  \/ NewExec
  \/ RegisterRoutes
  \/ ListenAndServe
  \/ Restart
  \/ \E p \in Callers, u \in Targets, a \in Aliases : SavePrepare(p, u, a)
  \/ \E p \in Callers : SaveExec(p)
  \/ \E p \in Callers, a \in Aliases : GetPrepare(p, a)
  \/ \E p \in Callers : GetExec(p)
  \/ \E p \in Callers, a \in Aliases : DeleteCall(p, a)
  \/ \E p \in Callers : DeleteExec(p)
  \/ \E p \in Callers : Return(p)

Spec == Init /\ [][Next]_vars

(* -------------------------- concurrent launch ------------------------- *)
\* The server is up on a database that holds any table the schema allows;
\* every caller makes at most one call, SaveURL or DeleteURL, on one alias.

Rows == [id : 1..MaxId, alias : Aliases, url : Targets]

Tables ==
  {t \in SUBSET Rows :
     \A r1, r2 \in t : (r1.alias = r2.alias \/ r1.id = r2.id) => r1 = r2}

TargetOf(tbl, a) ==
  IF Matching(tbl, a) = {} THEN NoTarget
  ELSE (CHOOSE r \in Matching(tbl, a) : TRUE).url

InitRace ==
  /\ mainPc = "serving"
  /\ storage = "ready"
  /\ schema = {"url"}
  /\ rows \in Tables
  /\ launch \in [alias : Aliases, tbl : {rows}]
  /\ saved = [a \in Aliases |-> TargetOf(rows, a)]
  /\ call = [p \in Callers |-> IdleCall]

NextRace ==
  \/ \E p \in Callers, u \in Targets : SavePrepare(p, u, launch.alias)
  \/ \E p \in Callers : SaveExec(p)
  \/ \E p \in Callers : DeleteCall(p, launch.alias)
  \/ \E p \in Callers : DeleteExec(p)

SpecRace == InitRace /\ [][NextRace]_vars

(* ------------------------- steps and histories ------------------------ *)

\* caller p's statement has just run and its call has returned
SaveStep(p) == call[p].pc = "save_exec" /\ call'[p].pc = "done"
GetStep(p) == call[p].pc = "get_exec" /\ call'[p].pc = "done"
DeleteStep(p) == call[p].pc = "delete_exec" /\ call'[p].pc = "done"

\* what GetURL(a) and SaveURL(u, a) called next, alone, on a healthy engine
\* return from table tbl
GetAfter(tbl, a) == {GetURLReturn(x) : x \in QueryRowScan(tbl, a, FALSE)}
SaveAfter(tbl, u, a) == SaveURLReturn(ExecInsert(tbl, u, a, FALSE))

LiveIds == {r.id : r \in rows}

(* ------------------------------- claims ------------------------------- *)

\* C1: once SaveURL(u1, a) has succeeded and no DeleteURL(a) has succeeded
\* since, every SaveURL(u2, a) the engine answers fails with ErrURLExists and
\* id 0 and changes nothing, and every GetURL(a) the engine answers returns u1.
C1_Uniqueness ==
  [][\A p \in Callers :
       LET a == call[p].alias
           live == saved[a] # NoTarget /\ ~IsEngineFailure(call'[p].err)
       IN /\ (SaveStep(p) /\ live) =>
                /\ ErrorsIs(call'[p].err, ErrURLExists)
                /\ call'[p].id = 0
                /\ rows' = rows
                /\ saved' = saved
          /\ (GetStep(p) /\ live) =>
                /\ call'[p].err = Nil
                /\ call'[p].resURL = saved[a]]_vars

\* a second SaveURL on a live alias has been refused
C1_Witness ==
  \E p \in Callers :
    /\ call[p].pc = "done"
    /\ call[p].op = "SaveURL"
    /\ ErrorsIs(call[p].err, ErrURLExists)
    /\ saved["ex1"] = "https://example.com"

\* C2: in every reachable state the table holds at most one row per alias.
C2_OneRowPerAlias ==
  \A r1, r2 \in rows : r1.alias = r2.alias => r1 = r2

\* both aliases are live and a SaveURL on one of them has been refused
C2_Witness ==
  /\ Cardinality(rows) = 2
  /\ \E p \in Callers :
       call[p].pc = "done" /\ ErrorsIs(call[p].err, ErrURLExists)

\* C4: SaveURL(u, a) with u and a non-empty and a not live succeeds when the
\* engine answers, and a GetURL(a) that follows returns exactly u and nil.
C4_RoundTrip ==
  [][\A p \in Callers :
       LET c == call[p] IN
       (/\ SaveStep(p)
        /\ c.url # "" /\ c.alias # ""
        /\ saved[c.alias] = NoTarget
        /\ ~IsEngineFailure(call'[p].err)) =>
          /\ call'[p].err = Nil
          /\ call'[p].id > 0
          /\ saved'[c.alias] = c.url
          /\ GetAfter(rows', c.alias) = {[url |-> c.url, err |-> Nil]}]_vars

\* a GetURL has returned the target a SaveURL stored under a non-empty alias
C4_Witness ==
  \E p \in Callers :
    /\ call[p].pc = "done"
    /\ call[p].op = "GetURL"
    /\ call[p].err = Nil
    /\ call[p].resURL = "https://other.com"
    /\ saved["ex1"] = "https://other.com"

\* C5: GetURL(a) for an alias that is not live returns ErrURLNotFound and an
\* empty target when the engine answers; an engine failure is returned as an
\* error that is not ErrURLNotFound; GetURL never returns ErrURLNotFound for a
\* live alias.
C5_NotFound ==
  [][\A p \in Callers :
       LET a == call[p].alias
           r == call'[p]
       IN /\ (GetStep(p) /\ saved[a] = NoTarget /\ ~IsEngineFailure(r.err)) =>
                (ErrorsIs(r.err, ErrURLNotFound) /\ r.resURL = "")
          /\ (GetStep(p) /\ saved[a] # NoTarget) =>
                ~ErrorsIs(r.err, ErrURLNotFound)
          /\ (r.pc = "done" /\ r.op = "GetURL" /\ IsEngineFailure(r.err)) =>
                (~ErrorsIs(r.err, ErrURLNotFound) /\ r.resURL = "")]_vars

\* a GetURL has returned ErrURLNotFound
C5_Witness ==
  \E p \in Callers :
    /\ call[p].pc = "done"
    /\ call[p].op = "GetURL"
    /\ ErrorsIs(call[p].err, ErrURLNotFound)

\* C6: DeleteURL(a), when the engine answers, returns nil and affected 0 for
\* an alias that is not live and affected 1 for a live one; afterwards a is
\* not live, GetURL(a) returns ErrURLNotFound and a second DeleteURL(a)
\* returns 0.  The affected count is 0 or 1 in every case.
C6_IdempotentDelete ==
  [][\A p \in Callers :
       LET a == call[p].alias
           r == call'[p]
       IN DeleteStep(p) =>
            /\ r.n \in {0, 1}
            /\ ~IsEngineFailure(r.err) =>
                 /\ r.err = Nil
                 /\ r.n = IF saved[a] = NoTarget THEN 0 ELSE 1
                 /\ saved'[a] = NoTarget
                 /\ GetAfter(rows', a) = {[url |-> "", err |-> <<ErrURLNotFound>>]}
                 /\ DeleteURLReturn(ExecDelete(rows', a, FALSE))
                      = [n |-> 0, err |-> Nil]]_vars

\* a DeleteURL has removed the only live row
C6_Witness ==
  \E p \in Callers :
    /\ call[p].pc = "done"
    /\ call[p].op = "DeleteURL"
    /\ call[p].err = Nil
    /\ call[p].n = 1
    /\ rows = {}
    /\ \A q \in Callers \ {p} : call[q].pc = "idle"

\* C7: after SaveURL(u1, a) and a DeleteURL(a) the engine answers, the delete
\* has succeeded with affected 1, and a SaveURL(u2, a) that follows succeeds
\* for every u2, after which GetURL(a) returns u2.
C7_Recreate ==
  [][\A p \in Callers :
       LET a == call[p].alias
           r == call'[p]
       IN (DeleteStep(p) /\ saved[a] # NoTarget /\ ~IsEngineFailure(r.err)) =>
            /\ r.err = Nil /\ r.n = 1
            /\ \A u2 \in Targets :
                 /\ SaveAfter(rows', u2, a).err = Nil
                 /\ GetAfter(ExecInsert(rows', u2, a, FALSE).tbl, a)
                      = {[url |-> u2, err |-> Nil]}]_vars

\* ex1 is live again with another target while the delete that removed it
\* has not yet returned to its handler
C7_Witness ==
  \E p, q \in Callers :
    /\ call[p].pc = "done" /\ call[p].op = "DeleteURL" /\ call[p].n = 1
    /\ call[q].pc = "done" /\ call[q].op = "SaveURL" /\ call[q].err = Nil
    /\ rows = {[id |-> 1, alias |-> "ex1", url |-> "https://other.com"]}

C10_NewKeepsRows ==
  [][(mainPc = "new_exec" /\ mainPc' = "routes") =>
       /\ storage' = "ready"
       /\ "url" \in schema'
       /\ rows' = rows
       /\ \A a \in Aliases :
            saved[a] # NoTarget =>
              GetAfter(rows', a) = {[url |-> saved[a], err |-> Nil]}]_vars

\* New has run again on a database that holds a row
C10_Witness ==
  /\ mainPc = "routes"
  /\ saved["ex1"] = "https://example.com"
  /\ rows # {}

(* ----------------------- claims on concurrent calls ------------------- *)

\* caller p's call of op has returned with an answer from the engine
Answered(p, op) ==
  call[p].pc = "done" /\ call[p].op = op /\ ~IsEngineFailure(call[p].err)

LaunchedLive == Matching(launch.tbl, launch.alias) # {}

OthersUntouched ==
  rows \ Matching(rows, launch.alias)
    = launch.tbl \ Matching(launch.tbl, launch.alias)

\* the row of the launch alias is the one SaveURL call w wrote
StoredBy(w) ==
  Matching(rows, launch.alias)
    = {[id |-> call[w].id, alias |-> launch.alias, url |-> saved[launch.alias]]}

\* C3: when every caller has run SaveURL(_, a) concurrently on an alias that
\* was absent, and the engine answered each, exactly one call returned nil,
\* every other call returned ErrURLExists with id 0, and the table holds one
\* row for a, with the winner's id and target.
C3_OneWinner ==
  ((\A p \in Callers : Answered(p, "SaveURL")) /\ ~LaunchedLive) =>
    \E w \in Callers :
      /\ call[w].err = Nil
      /\ \A p \in Callers \ {w} :
           ErrorsIs(call[p].err, ErrURLExists) /\ call[p].id = 0
      /\ StoredBy(w)
      /\ OthersUntouched

\* every caller has saved on the absent alias; one won, one was refused
C3_Witness ==
  /\ ~LaunchedLive
  /\ \A p \in Callers : Answered(p, "SaveURL")
  /\ \E w, l \in Callers :
       call[w].err = Nil /\ ErrorsIs(call[l].err, ErrURLExists)

\* one SaveURL by s and one DeleteURL by d, on the same alias, both answered
\* by the engine, and nobody else called
RaceDone(s, d) ==
  /\ Answered(s, "SaveURL")
  /\ Answered(d, "DeleteURL")
  /\ \A q \in Callers \ {s, d} : call[q].pc = "idle"

\* the serial order DeleteURL then SaveURL
DeleteFirst(s, d) ==
  /\ call[d].err = Nil
  /\ call[d].n = IF LaunchedLive THEN 1 ELSE 0
  /\ call[s].err = Nil
  /\ StoredBy(s)
  /\ OthersUntouched

\* the serial order SaveURL then DeleteURL, with SaveURL succeeding
SaveFirstSucceeds(s, d) ==
  /\ call[s].err = Nil
  /\ call[d].err = Nil
  /\ call[d].n = 1
  /\ Matching(rows, launch.alias) = {}
  /\ OthersUntouched

\* the serial order SaveURL then DeleteURL: SaveURL succeeds on an absent
\* alias and is refused on a live one
SaveFirst(s, d) ==
  /\ IF LaunchedLive
     THEN ErrorsIs(call[s].err, ErrURLExists) /\ call[s].id = 0
     ELSE call[s].err = Nil
  /\ call[d].err = Nil
  /\ call[d].n = 1
  /\ Matching(rows, launch.alias) = {}
  /\ OthersUntouched

\* C9 as stated: the outcome of a DeleteURL(a) racing a SaveURL(u, a) is
\* either (SaveURL succeeds, DeleteURL returns 1, a ends absent) or
\* (DeleteURL first, its count matching the prior state, then SaveURL).
C9_AsStated ==
  \A s, d \in Callers :
    RaceDone(s, d) => (SaveFirstSucceeds(s, d) \/ DeleteFirst(s, d))

\* C9 amended: the outcome of a DeleteURL(a) racing a SaveURL(u, a) is that
\* of one of the two serial orders: SaveURL first (nil if a was absent,
\* ErrURLExists if a was live), then DeleteURL returns 1 and a ends absent;
\* or DeleteURL first with the count of the prior state, then SaveURL
\* succeeds and a ends live with SaveURL's target.
C9_Serial ==
  \A s, d \in Callers :
    RaceDone(s, d) => (SaveFirst(s, d) \/ DeleteFirst(s, d))

\* on a live alias SaveURL ran first and was refused, then DeleteURL removed
\* the row
C9_Witness ==
  \E s, d \in Callers :
    /\ RaceDone(s, d)
    /\ LaunchedLive
    /\ ErrorsIs(call[s].err, ErrURLExists)
    /\ call[d].n = 1
    /\ Matching(rows, launch.alias) = {}

(* -------------------------- claims on startup ------------------------- *)

\* C11: the router is built, the server listens and requests reach the
\* storage only while main holds a storage that New returned without error;
\* when New returns an error the process exits with code 1, with no routes
\* registered and no server started.
C11_NoServingWithoutStorage ==
  /\ [](/\ mainPc \in {"routes", "listen", "serving", "stopped"}
           => storage = "ready"
        /\ \A p \in Callers : call[p].pc # "idle" => storage = "ready")
  /\ [][(/\ mainPc \in {"new_prepare", "new_exec"}
         /\ mainPc' # "new_exec"
         /\ storage' # "ready") => mainPc' = "exited"]_vars
  /\ [][mainPc = "exited" => mainPc' \in {"exited", "new_prepare"}]_vars

\* the server listens on the storage the first New returned
C11_Witness ==
  /\ mainPc = "serving"
  /\ storage = "ready"
  /\ rows = {}
  /\ \A p \in Callers : call[p].pc = "idle"

(* --------------------------- claims on records ------------------------ *)

\* C12: every row of the table has a non-empty alias and a non-empty target.
C12_NonEmpty ==
  \A r \in rows : r.alias # "" /\ r.url # ""

\* C13: GetURL changes no row; SaveURL(u, a) and DeleteURL(a) leave every row
\* of another alias as it was (presence, target, id); a SaveURL or DeleteURL
\* that returns an error leaves the whole table as it was.
C13_Frame ==
  [][\A p \in Callers :
       LET a == call[p].alias
           others(tbl) == tbl \ Matching(tbl, a)
           exec == SaveStep(p) \/ DeleteStep(p)
       IN /\ (call'[p].op = "GetURL" /\ call'[p] # call[p]) => rows' = rows
          /\ (call'[p].op \in {"SaveURL", "DeleteURL"} /\ call'[p] # call[p]) =>
               /\ exec => others(rows') = others(rows)
               /\ ~exec => rows' = rows
               /\ call'[p].err # Nil => rows' = rows]_vars

\* a DeleteURL has removed one row and the row of the other alias is there
C13_Witness ==
  \E p \in Callers :
    /\ call[p].pc = "done"
    /\ call[p].op = "DeleteURL"
    /\ call[p].n = 1
    /\ Cardinality(rows) = 1
    /\ \A q \in Callers \ {p} : call[q].pc = "idle"

====
